---- MODULE Spec2Model ----
(***************************************************************************)
(* Model of the picture-frame slideshow client, app/static/js/slideshow.js *)
(*                                                                         *)
(* The client is a single cooperative event loop: every action below is    *)
(* one task of that loop (init, an XMLHttpRequest callback, an Image       *)
(* onload/onerror callback, a setTimeout callback), run to completion.     *)
(* Times are in milliseconds. A timer fires when its remaining time is 0;  *)
(* time never advances past a pending deadline, and timers that are due at *)
(* the same instant fire in the order they were registered. Time advances  *)
(* from one deadline to the next; a network callback may run at any of     *)
(* these instants, before or after the timers due at it.                   *)
(***************************************************************************)
EXTENDS Integers, Sequences, FiniteSets, TLC

VARIABLES
    pc,               \* where the page load stands (see PcValues)
    window,           \* [search, innerWidth, innerHeight, hasAddEventListener, hasElements, storageMode]
    localStorage,     \* value stored under 'pictureframe_api_key', or NoString
    listeners,        \* TRUE once the orientationchange/resize listeners are registered
    config,           \* [apiKey, delay, fadeDuration, displayOrder]
    state,            \* [photos, currentIndex, isFirstLoad, isTransitioning, currentPhoto]
    errorEl,          \* [text, display]
    loadingEl,        \* [text, display]
    currentImgEl,     \* [src, opacity, pos, transition]
    backgroundImgEl,  \* [src, opacity, display, transition]
    cycles,           \* the closures of showNextPhoto, one per live display cycle
    timers,           \* pending setTimeout callbacks, in registration order
    requests          \* the URLs requested with makeRequest so far, in order

vars == <<pc, window, localStorage, listeners, config, state, errorEl, loadingEl,
          currentImgEl, backgroundImgEl, cycles, timers, requests>>

\* null, undefined and '' of a string; null of an image or a photo
NoString == <<>>
NoImage == 0

(***************************************************************************)
(* Bounds of the model.                                                    *)
(***************************************************************************)
\* longest photo list the server answers with
MaxPhotos == 2
\* display cycles whose closure or timers are alive at the same time
MaxSlots == 2

Slots == 1..MaxSlots

\* orientationchange and resize events dispatched during one page load
MaxResizes == 2

(***************************************************************************)
(* Program constants.                                                      *)
(***************************************************************************)
DefaultDelay == 10000
DefaultFadeDuration == 1000
ErrorHideDelay == 5000
RetryDelay == 3000
FadeInDelay == 50
FadeOutExtra == 50
ResizeDelay == 100

(***************************************************************************)
(* Inputs the environment supplies.                                        *)
(***************************************************************************)
\* window.location.search after the leading '?', as a sequence of tokens:
\* "&" and "=" are the separators the code splits on, "%" is a malformed
\* percent-escape, "%3D" is an escaped "=", every other token is plain text.
Searches ==
    { <<>>,
      <<"api_key", "=", "K1">>,
      <<"api_key", "=", "K2">>,
      <<"api_key", "=">>,
      <<"api_key", "=", "K1", "=">>,
      <<"api_key", "=", "K1", "%3D">>,
      <<"x", "=", "K1", "&", "api_key", "=", "K2">>,
      <<"api_key", "=", "K1", "&", "api_key", "=", "K2">>,
      <<"x", "=", "%">> }

\* what an earlier page load may have left in localStorage
StoredKeys == {NoString, <<"K1">>, <<"K2">>}

\* localStorage works, is undefined, or throws on every access
StorageModes == {"ok", "undefined", "throws"}

\* innerWidth, innerHeight of the viewport
Viewports == { <<1024, 768>>, <<768, 1024>> }

\* the viewports the positioning is computed for
PositionViewports ==
    { <<1024, 768>>, <<768, 1024>>, <<800, 800>>, <<1280, 720>>, <<720, 1280>>,
      <<320, 480>>, <<480, 320>>, <<2048, 1536>> }

\* the values /api/config may carry for delay and fadeDuration; 0 stands for
\* every falsy value (0, missing, null), which the code replaces by the default
ConfigDelays == {0, 10, 3000}
ConfigFadeDurations == {0, 2000}
ConfigDisplayOrders == {"", "sequential"}

\* the photo descriptors the server may list, in list order
RECURSIVE PhotoList(_)
PhotoList(n) == IF n = 0 THEN <<>> ELSE Append(PhotoList(n - 1), n)
PhotoLists == { PhotoList(n) : n \in 0..MaxPhotos }

\* naturalWidth, naturalHeight of the sharp images the server may send
ImageSizes ==
    << <<1600, 900>>, <<600, 900>>, <<900, 900>>, <<1024, 768>>, <<768, 1024>>,
       <<2000, 500>>, <<500, 2000>>, <<800, 600>>, <<1, 1>>, <<1920, 1080>>,
       <<1080, 1920>>, <<640, 480>>, <<3, 4>>, <<1200, 1600>> >>

\* natural width and height of the sharp image of photo p
PhotoSize(p) == ImageSizes[((p - 1) % Len(ImageSizes)) + 1]

(***************************************************************************)
(* The whole client as one record, so that each function of the source     *)
(* is an operator from the state before the call to the state after it.    *)
(***************************************************************************)
World ==
    [ pc |-> pc, window |-> window, localStorage |-> localStorage,
      listeners |-> listeners, config |-> config, state |-> state,
      errorEl |-> errorEl, loadingEl |-> loadingEl,
      currentImgEl |-> currentImgEl, backgroundImgEl |-> backgroundImgEl,
      cycles |-> cycles, timers |-> timers, requests |-> requests ]

Becomes(w) ==
    /\ pc' = w.pc
    /\ window' = w.window
    /\ localStorage' = w.localStorage
    /\ listeners' = w.listeners
    /\ config' = w.config
    /\ state' = w.state
    /\ errorEl' = w.errorEl
    /\ loadingEl' = w.loadingEl
    /\ currentImgEl' = w.currentImgEl
    /\ backgroundImgEl' = w.backgroundImgEl
    /\ cycles' = w.cycles
    /\ timers' = w.timers
    /\ requests' = w.requests

(***************************************************************************)
(* setTimeout                                                              *)
(***************************************************************************)
\* a delay below 0 is run as soon as possible, like a delay of 0
Clamp(ms) == IF ms < 0 THEN 0 ELSE ms

\* kind: which callback; cyc: the display cycle (slot) whose closure it is,
\* 0 for none; sharp, blur: the images the callback captured
Timer(kind, ms, cyc, sharp, blur) ==
    [kind |-> kind, rem |-> Clamp(ms), cyc |-> cyc, sharp |-> sharp, blur |-> blur]

setTimeout(w, kind, ms, cyc, sharp, blur) ==
    [w EXCEPT !.timers = Append(@, Timer(kind, ms, cyc, sharp, blur))]

(***************************************************************************)
(* showError, hideError                                                    *)
(***************************************************************************)
showError(w, message) ==
    setTimeout([w EXCEPT !.errorEl = [text |-> message, display |-> "block"],
                         !.loadingEl.display = "none"],
               "hideError", ErrorHideDelay, 0, NoImage, NoImage)

hideError(w) == [w EXCEPT !.errorEl.display = "none"]

(***************************************************************************)
(* getApiKey                                                               *)
(***************************************************************************)
\* String.prototype.split with a one-token separator
RECURSIVE split(_, _)
split(s, sep) ==
    IF \A i \in 1..Len(s) : s[i] # sep
    THEN <<s>>
    ELSE LET i == CHOOSE k \in 1..Len(s) :
                      s[k] = sep /\ \A j \in 1..(k - 1) : s[j] # sep
         IN  <<SubSeq(s, 1, i - 1)>> \o split(SubSeq(s, i + 1, Len(s)), sep)

\* decodeURIComponent throws URIError on a malformed escape
decodeThrows(s) == \E i \in 1..Len(s) : s[i] = "%"
decodeURIComponent(s) == [i \in 1..Len(s) |-> IF s[i] = "%3D" THEN "=" ELSE s[i]]

\* the pairs of the for loop that are stored into urlParams
UrlPairs(search) ==
    LET parts == split(search, "&")
    IN  [i \in 1..Len(parts) |-> split(parts[i], "=")]

\* urlParams.api_key after the loop: the last assignment wins; NoString if never assigned
RECURSIVE UrlApiKey(_, _)
UrlApiKey(pairs, n) ==
    IF n = 0 THEN NoString
    ELSE IF Len(pairs[n]) = 2 /\ decodeURIComponent(pairs[n][1]) = <<"api_key">>
         THEN decodeURIComponent(pairs[n][2])
         ELSE UrlApiKey(pairs, n - 1)

\* a value the code takes as true in a condition
Truthy(v) == v # NoString

\* [threw, key, store]: whether the call threw, the key it returned (NoString
\* for null), and localStorage after it
getApiKey(search, mode, stored) ==
    LET pairs == UrlPairs(search)
        threw == \E i \in 1..Len(pairs) :
                    /\ Len(pairs[i]) = 2
                    /\ decodeThrows(pairs[i][1]) \/ decodeThrows(pairs[i][2])
        fromUrl == UrlApiKey(pairs, Len(pairs))
    IN  IF threw
        THEN [threw |-> TRUE, key |-> NoString, store |-> stored]
        ELSE IF Truthy(fromUrl)
        THEN [threw |-> FALSE, key |-> fromUrl,
              store |-> IF mode = "ok" THEN fromUrl ELSE stored]
        ELSE IF mode = "ok" /\ Truthy(stored)
        THEN [threw |-> FALSE, key |-> stored, store |-> stored]
        ELSE [threw |-> FALSE, key |-> NoString, store |-> stored]


(***************************************************************************)
(* getOrientation, positionImage                                           *)
(***************************************************************************)
RECURSIVE GCD(_, _)
GCD(a, b) == IF b = 0 THEN a ELSE GCD(b, a % b)
Abs(a) == IF a < 0 THEN 0 - a ELSE a

\* the number n/d (d > 0) in lowest terms, as <<numerator, denominator>>
Frac(n, d) == LET g == GCD(Abs(n), d) IN <<n \div g, d \div g>>
Whole(n) == <<n, 1>>

getOrientation(width, height) == IF width >= height THEN "landscape" ELSE "portrait"

\* fill the viewport's height: the branches of lines 220-224 and 238-242
FillHeight(vw, vh, iw, ih) ==
    [ width |-> Frac(iw * vh, ih), height |-> Whole(vh),
      top |-> Whole(0), left |-> Frac(vw * ih - iw * vh, 2 * ih) ]

\* fill the viewport's width: the branches of lines 226-230 and 244-248
FillWidth(vw, vh, iw, ih) ==
    [ width |-> Whole(vw), height |-> Frac(ih * vw, iw),
      top |-> Frac(vh * iw - ih * vw, 2 * iw), left |-> Whole(0) ]

\* the aspect ratios are compared whatever the orientations (CSS cover)
positionImage_CoverAlways(vw, vh, iw, ih) ==
    IF iw * vh >= vw * ih
    THEN FillHeight(vw, vh, iw, ih)
    ELSE FillWidth(vw, vh, iw, ih)

\* matching orientations fitted inside the viewport (CSS contain)
positionImage_Contain(vw, vh, iw, ih) ==
    LET viewportOrientation == getOrientation(vw, vh)
        imgOrientation == getOrientation(iw, ih)
    IN  IF viewportOrientation # imgOrientation
        THEN IF viewportOrientation = "landscape" /\ imgOrientation = "portrait"
             THEN FillHeight(vw, vh, iw, ih)
             ELSE FillWidth(vw, vh, iw, ih)
        ELSE IF iw * vh >= vw * ih
             THEN FillWidth(vw, vh, iw, ih)
             ELSE FillHeight(vw, vh, iw, ih)

\* the cross-orientation branches exchanged: the image fills the other
\* dimension of the viewport
positionImage_CrossFills(vw, vh, iw, ih) ==
    LET viewportOrientation == getOrientation(vw, vh)
        imgOrientation == getOrientation(iw, ih)
    IN  IF viewportOrientation # imgOrientation
        THEN IF viewportOrientation = "landscape" /\ imgOrientation = "portrait"
             THEN FillWidth(vw, vh, iw, ih)
             ELSE FillHeight(vw, vh, iw, ih)
        ELSE IF iw * vh >= vw * ih
             THEN FillHeight(vw, vh, iw, ih)
             ELSE FillWidth(vw, vh, iw, ih)

\* the style (width, height, left, top, in px) positionImage gives the element
positionImage(vw, vh, iw, ih) ==
    LET viewportOrientation == getOrientation(vw, vh)
        imgOrientation == getOrientation(iw, ih)
    IN  IF viewportOrientation # imgOrientation
        THEN IF viewportOrientation = "landscape" /\ imgOrientation = "portrait"
             THEN FillHeight(vw, vh, iw, ih)
             ELSE FillWidth(vw, vh, iw, ih)
        ELSE \* imgAspect >= viewportAspect, all four dimensions positive
             IF iw * vh >= vw * ih
             THEN FillHeight(vw, vh, iw, ih)
             ELSE FillWidth(vw, vh, iw, ih)

NoPos == [width |-> Whole(0), height |-> Whole(0), top |-> Whole(0), left |-> Whole(0)]

\* positionImage(currentImgEl, w, h) of an image of photo p
PositionCurrent(w, p) ==
    [w EXCEPT !.currentImgEl.pos =
        positionImage(w.window.innerWidth, w.window.innerHeight,
                      PhotoSize(p)[1], PhotoSize(p)[2]),
              !.currentImgEl.display = "block"]

(***************************************************************************)
(* The closures of showNextPhoto: one per display cycle, kept while one of *)
(* its preloads or timers is pending.                                      *)
(***************************************************************************)
FreeCycle ==
    [ live |-> FALSE, photo |-> NoImage, imagesLoaded |-> 0,
      sharpImg |-> NoImage, blurImg |-> NoImage,
      sharpPending |-> FALSE, blurPending |-> FALSE, displayCalls |-> 0 ]

NewCycle(photo) ==
    [ live |-> TRUE, photo |-> photo, imagesLoaded |-> 0,
      sharpImg |-> NoImage, blurImg |-> NoImage,
      sharpPending |-> TRUE, blurPending |-> TRUE, displayCalls |-> 0 ]

HasFreeSlot(w) == \E s \in Slots : ~w.cycles[s].live
FreeSlot(w) == CHOOSE s \in Slots : ~w.cycles[s].live /\ \A t \in 1..(s - 1) : w.cycles[t].live

\* forget the closures nothing refers to any more
Reap(w) ==
    [w EXCEPT !.cycles =
        [s \in Slots |->
            IF /\ w.cycles[s].live
               /\ ~w.cycles[s].sharpPending
               /\ ~w.cycles[s].blurPending
               /\ \A i \in 1..Len(w.timers) : w.timers[i].cyc # s
            THEN FreeCycle
            ELSE w.cycles[s]]]

(***************************************************************************)
(* displayPhotoWithBlur                                                    *)
(***************************************************************************)
\* lines 338-346 and 354-361: show the blur if there is one, then the sharp image
UpdateImages(w, sharp, blur) ==
    LET b == IF blur # NoImage
             THEN [w EXCEPT !.backgroundImgEl.src = blur,
                            !.backgroundImgEl.display = "block",
                            !.backgroundImgEl.opacity = "1"]
             ELSE w
    IN  [PositionCurrent(b, sharp) EXCEPT !.currentImgEl.src = sharp]

displayPhotoWithBlur(w, cyc, sharp, blur) ==
    LET currentOpacity == IF w.currentImgEl.opacity = "" THEN "0" ELSE w.currentImgEl.opacity
        hasCurrentImage == currentOpacity # "" /\ currentOpacity # "0"
        called == [w EXCEPT !.cycles[cyc].displayCalls = @ + 1]
        shown ==
            IF hasCurrentImage
            THEN setTimeout([called EXCEPT !.currentImgEl.opacity = "0",
                                           !.backgroundImgEl.opacity = "0"],
                            "update", w.config.fadeDuration + FadeOutExtra, cyc, sharp, blur)
            ELSE setTimeout(UpdateImages(called, sharp, blur),
                            "fadeIn", FadeInDelay, cyc, NoImage, NoImage)
    IN  setTimeout(shown, "next", w.config.delay + w.config.fadeDuration,
                   cyc, NoImage, NoImage)

(***************************************************************************)
(* showNextPhoto and the callbacks of its two preloads                     *)
(***************************************************************************)
\* whether a call of showNextPhoto starts a cycle
\* showNextPhoto without the guard of lines 263-265
showNextPhoto_NoGuard(w) ==
    IF Len(w.state.photos) = 0
    THEN [w EXCEPT !.loadingEl.text = "No photos found"]
    ELSE LET index == (w.state.currentIndex + 1) % Len(w.state.photos)
             photo == w.state.photos[index + 1]
         IN  hideError(
               [w EXCEPT !.state.isTransitioning = TRUE,
                         !.state.currentIndex = index,
                         !.state.currentPhoto = photo,
                         !.loadingEl.display =
                             IF w.state.isFirstLoad THEN "block" ELSE @,
                         !.cycles[CHOOSE s \in Slots : ~w.cycles[s].live] = NewCycle(photo)])

StartsCycle(w) == ~w.state.isTransitioning /\ Len(w.state.photos) # 0

showNextPhoto(w) ==
    IF w.state.isTransitioning THEN w
    ELSE IF Len(w.state.photos) = 0
    THEN [w EXCEPT !.loadingEl.text = "No photos found"]
    ELSE LET index == (w.state.currentIndex + 1) % Len(w.state.photos)
             photo == w.state.photos[index + 1]
         IN  hideError(
               [w EXCEPT !.state.isTransitioning = TRUE,
                         !.state.currentIndex = index,
                         !.state.currentPhoto = photo,
                         !.loadingEl.display =
                             IF w.state.isFirstLoad THEN "block" ELSE @,
                         !.cycles[FreeSlot(w)] = NewCycle(photo)])

\* a race instead of a join: the photo is displayed as soon as the sharp image is there
checkLoadComplete_Race(w, cyc) ==
    LET counted == [w EXCEPT !.cycles[cyc].imagesLoaded = @ + 1]
        c == counted.cycles[cyc]
        shown == [counted EXCEPT !.loadingEl.display = "none",
                                 !.state.isFirstLoad = FALSE]
    IN  IF c.sharpImg # NoImage
        THEN displayPhotoWithBlur(shown, cyc, c.sharpImg, c.blurImg)
        ELSE counted

checkLoadComplete(w, cyc) ==
    LET counted == [w EXCEPT !.cycles[cyc].imagesLoaded = @ + 1]
        c == counted.cycles[cyc]
    IN  IF c.imagesLoaded = 2
        THEN LET joined == [counted EXCEPT !.loadingEl.display = "none",
                                           !.state.isFirstLoad = FALSE]
             IN  IF c.sharpImg # NoImage /\ c.blurImg # NoImage
                 THEN displayPhotoWithBlur(joined, cyc, c.sharpImg, c.blurImg)
                 ELSE joined
        ELSE counted

\* a photo whose sharp preload failed is taken off the list
sharpLoaded_DropsFailed(w, cyc, err) ==
    LET done == [w EXCEPT !.cycles[cyc].sharpPending = FALSE]
    IN  IF err
        THEN setTimeout(showError([done EXCEPT !.state.photos =
                                      SelectSeq(@, LAMBDA p : p # w.cycles[cyc].photo)],
                                  [msg |-> "Failed to load photo", photo |-> w.cycles[cyc].photo]),
                        "retry", RetryDelay, cyc, NoImage, NoImage)
        ELSE checkLoadComplete([done EXCEPT !.cycles[cyc].sharpImg = w.cycles[cyc].photo], cyc)

\* the retry scheduled like a next photo, after delay + fadeDuration
sharpLoaded_WrongBackoff(w, cyc, err) ==
    LET done == [w EXCEPT !.cycles[cyc].sharpPending = FALSE]
    IN  IF err
        THEN setTimeout(showError(done, [msg |-> "Failed to load photo", photo |-> w.cycles[cyc].photo]),
                        "retry", w.config.delay + w.config.fadeDuration, cyc, NoImage, NoImage)
        ELSE checkLoadComplete([done EXCEPT !.cycles[cyc].sharpImg = w.cycles[cyc].photo], cyc)

\* the callback of the sharp preload, lines 304-315
sharpLoaded(w, cyc, err) ==
    LET done == [w EXCEPT !.cycles[cyc].sharpPending = FALSE]
    IN  IF err
        THEN setTimeout(showError(done, [msg |-> "Failed to load photo", photo |-> w.cycles[cyc].photo]),
                        "retry", RetryDelay, cyc, NoImage, NoImage)
        ELSE checkLoadComplete([done EXCEPT !.cycles[cyc].sharpImg = w.cycles[cyc].photo], cyc)

\* a failed blur preload handled like a failed sharp preload: it schedules a retry
blurLoaded_RetriesToo(w, cyc, err) ==
    LET done == [w EXCEPT !.cycles[cyc].blurPending = FALSE]
    IN  IF err
        THEN setTimeout(done, "retry", RetryDelay, cyc, NoImage, NoImage)
        ELSE checkLoadComplete([done EXCEPT !.cycles[cyc].blurImg = w.cycles[cyc].photo], cyc)

\* the callback of the blur preload, lines 318-321
blurLoaded(w, cyc, err) ==
    LET done == [w EXCEPT !.cycles[cyc].blurPending = FALSE]
    IN  checkLoadComplete(
            [done EXCEPT !.cycles[cyc].blurImg =
                IF err THEN NoImage ELSE w.cycles[cyc].photo], cyc)


(***************************************************************************)
(* init, loadConfig, loadPhotos, makeRequest                               *)
(***************************************************************************)
\* makeRequest up to xhr.send(): the request is on its way
makeRequest(w, url) == [w EXCEPT !.requests = Append(@, url)]

loadPhotos(w) ==
    [makeRequest(w, [path |-> "/api/photos", apiKey |-> w.config.apiKey,
                     order |-> w.config.displayOrder])
        EXCEPT !.pc = "loadPhotos"]

loadConfig(w) ==
    [makeRequest(w, [path |-> "/api/config", apiKey |-> NoString, order |-> ""])
        EXCEPT !.pc = "loadConfig"]

init(w) ==
    IF ~w.window.hasElements
    THEN [w EXCEPT !.pc = "noElements"]
    ELSE LET got == getApiKey(w.window.search, w.window.storageMode, w.localStorage)
         IN  IF got.threw
             THEN [w EXCEPT !.pc = "threw"]
             ELSE LET keyed == [w EXCEPT !.config.apiKey = got.key,
                                         !.localStorage = got.store]
                  IN  IF ~Truthy(got.key)
                      THEN [showError(keyed, [msg |-> "Please provide API key", photo |-> NoImage])
                               EXCEPT !.loadingEl.display = "none", !.pc = "noApiKey"]
                      ELSE loadConfig([keyed EXCEPT !.listeners = w.window.hasAddEventListener])

\* the callback loadConfig gives makeRequest, called with an error
configFailed(w) ==
    [showError(w, [msg |-> "Failed to load configuration", photo |-> NoImage])
        EXCEPT !.pc = "configFailed"]

\* the same callback, called with the parsed response
configLoaded(w, data) ==
    LET delay == IF data.delay # 0 THEN data.delay ELSE DefaultDelay
        fadeDuration == IF data.fadeDuration # 0 THEN data.fadeDuration ELSE DefaultFadeDuration
        displayOrder == IF data.displayOrder # "" THEN data.displayOrder ELSE "random"
    IN  loadPhotos(
          [w EXCEPT !.config.delay = delay,
                    !.config.fadeDuration = fadeDuration,
                    !.config.displayOrder = displayOrder,
                    !.backgroundImgEl.transition = fadeDuration,
                    !.currentImgEl.transition = fadeDuration])

\* the failed request is made again
photosFailed_Retries(w, message) ==
    loadPhotos(showError(w, [msg |-> "Failed to load photos: " \o message, photo |-> NoImage]))

\* the callback loadPhotos gives makeRequest, called with an error
photosFailed(w, message) ==
    [showError(w, [msg |-> "Failed to load photos: " \o message, photo |-> NoImage])
        EXCEPT !.pc = "photosFailed"]

\* an empty list reported like a failed request
photosLoaded_EmptyIsError(w, photos) ==
    LET listed == [w EXCEPT !.state.photos = photos]
    IN  IF Len(photos) > 0
        THEN [showNextPhoto([listed EXCEPT !.state.currentIndex = -1]) EXCEPT !.pc = "running"]
        ELSE [showError(listed, [msg |-> "No photos found", photo |-> NoImage])
                 EXCEPT !.pc = "noPhotos"]

\* the index is not set to -1 before the first call of showNextPhoto
photosLoaded_KeepsIndex(w, photos) ==
    LET listed == [w EXCEPT !.state.photos = photos]
    IN  IF Len(photos) > 0
        THEN [showNextPhoto(listed) EXCEPT !.pc = "running"]
        ELSE [listed EXCEPT !.loadingEl.text = "No photos found", !.pc = "noPhotos"]

\* the same callback, called with the parsed response
photosLoaded(w, photos) ==
    LET listed == [w EXCEPT !.state.photos = photos]
    IN  IF Len(photos) > 0
        THEN [showNextPhoto([listed EXCEPT !.state.currentIndex = -1]) EXCEPT !.pc = "running"]
        ELSE [listed EXCEPT !.loadingEl.text = "No photos found", !.pc = "noPhotos"]

(***************************************************************************)
(* Initial state: the page has loaded and init has not run yet.            *)
(***************************************************************************)
Windows ==
    { [ search |-> q, innerWidth |-> v[1], innerHeight |-> v[2],
        hasAddEventListener |-> a, hasElements |-> e, storageMode |-> m,
        resizes |-> 0 ] :
      q \in Searches, v \in Viewports, a \in BOOLEAN, e \in BOOLEAN, m \in StorageModes }

\* the page loads the display loop is explored from
LoopWindows ==
    { w \in Windows :
        /\ w.search \in { <<>>, <<"api_key", "=", "K1">> }
        /\ w.innerWidth = 1024
        /\ w.hasAddEventListener
        /\ w.storageMode = "ok" }

\* the client when the script has been evaluated in window win, lines 8-31
Loaded(win, stored) ==
    [ pc |-> "start",
      window |-> win,
      localStorage |-> stored,
      listeners |-> FALSE,
      config |-> [apiKey |-> NoString, delay |-> DefaultDelay,
                  fadeDuration |-> DefaultFadeDuration, displayOrder |-> "random"],
      state |-> [photos |-> <<>>, currentIndex |-> 0, isFirstLoad |-> TRUE,
                 isTransitioning |-> FALSE, currentPhoto |-> NoImage],
      errorEl |-> [text |-> [msg |-> "", photo |-> NoImage], display |-> ""],
      loadingEl |-> [text |-> "", display |-> ""],
      currentImgEl |-> [src |-> NoImage, opacity |-> "", pos |-> NoPos,
                        display |-> "", transition |-> 0],
      backgroundImgEl |-> [src |-> NoImage, opacity |-> "", display |-> "", transition |-> 0],
      cycles |-> [s \in Slots |-> FreeCycle],
      timers |-> <<>>,
      requests |-> <<>> ]

InitFrom(windows, stored) ==
    \E win \in windows, st \in stored :
        LET w == Loaded(win, st)
        IN  /\ pc = w.pc
            /\ window = w.window
            /\ localStorage = w.localStorage
            /\ listeners = w.listeners
            /\ config = w.config
            /\ state = w.state
            /\ errorEl = w.errorEl
            /\ loadingEl = w.loadingEl
            /\ currentImgEl = w.currentImgEl
            /\ backgroundImgEl = w.backgroundImgEl
            /\ cycles = w.cycles
            /\ timers = w.timers
            /\ requests = w.requests

Init == InitFrom(LoopWindows, {NoString})

\* every page load of the bounded input sets
InitStartup == InitFrom(Windows, StoredKeys)

(***************************************************************************)
(* Actions: one per task of the event loop.                                *)
(***************************************************************************)
\* DOMContentLoaded (or the script running on a loaded document): init()
PageReady ==
    /\ pc = "start"
    /\ Becomes(init(World))

\* /api/config answered 200 with a JSON object
ConfigOk ==
    /\ pc = "loadConfig"
    /\ \E d \in ConfigDelays, f \in ConfigFadeDurations, o \in ConfigDisplayOrders :
          Becomes(configLoaded(World, [delay |-> d, fadeDuration |-> f, displayOrder |-> o]))

\* /api/config failed: a status other than 200, a body that is not JSON, or the
\* JSON null (the callback throws on data.delay and is called again with the
\* exception)
ConfigError ==
    /\ pc = "loadConfig"
    /\ Becomes(configFailed(World))

\* /api/config timed out: readyState 4 with status 0, then ontimeout
ConfigTimeout ==
    /\ pc = "loadConfig"
    /\ Becomes(configFailed(configFailed(World)))

\* /api/photos answered 200 with a JSON object
PhotosOk ==
    /\ pc = "loadPhotos"
    /\ \E l \in PhotoLists : Becomes(photosLoaded(World, l))

\* /api/photos failed (as for /api/config)
PhotosError ==
    /\ pc = "loadPhotos"
    /\ \E m \in {"Request failed", "SyntaxError", "TypeError"} :
          Becomes(photosFailed(World, m))

\* /api/photos timed out
PhotosTimeout ==
    /\ pc = "loadPhotos"
    /\ Becomes(photosFailed(photosFailed(World, "Request failed"), "Request timeout"))

\* onload or onerror of the sharp preload of cycle cyc
SharpLoad(cyc) ==
    /\ cycles[cyc].sharpPending
    /\ Becomes(Reap(sharpLoaded(World, cyc, FALSE)))

SharpError(cyc) ==
    /\ cycles[cyc].sharpPending
    /\ Becomes(Reap(sharpLoaded(World, cyc, TRUE)))

\* onload or onerror of the blur preload of cycle cyc
BlurLoad(cyc) ==
    /\ cycles[cyc].blurPending
    /\ Becomes(Reap(blurLoaded(World, cyc, FALSE)))

BlurError(cyc) ==
    /\ cycles[cyc].blurPending
    /\ Becomes(Reap(blurLoaded(World, cyc, TRUE)))

\* the timer that fires next: the first registered among those that are due
IsDue(i) == timers[i].rem = 0 /\ \A j \in 1..(i - 1) : timers[j].rem # 0
Due(kind) == \E i \in 1..Len(timers) : IsDue(i) /\ timers[i].kind = kind
DueTimer == timers[CHOOSE i \in 1..Len(timers) : IsDue(i)]

\* the state when the due timer's callback starts: the timer is gone
Fired ==
    LET i == CHOOSE k \in 1..Len(timers) : IsDue(k)
    IN  [World EXCEPT !.timers = SubSeq(timers, 1, i - 1) \o SubSeq(timers, i + 1, Len(timers))]

\* lines 153-155
FireHideError ==
    /\ Due("hideError")
    /\ Becomes(Reap(hideError(Fired)))

\* lines 307-310 and 369-372: clear the guard and show the next photo
nextCycle(w) == showNextPhoto([w EXCEPT !.state.isTransitioning = FALSE])

FireRetry ==
    /\ Due("retry")
    /\ HasFreeSlot(Fired)
    /\ Becomes(Reap(nextCycle(Fired)))

FireNext ==
    /\ Due("next")
    /\ HasFreeSlot(Fired)
    /\ Becomes(Reap(nextCycle(Fired)))

\* lines 336-351: the images change when the fade-out is over
FireUpdate ==
    /\ Due("update")
    /\ Becomes(Reap(setTimeout(UpdateImages(Fired, DueTimer.sharp, DueTimer.blur),
                               "fadeIn", FadeInDelay, DueTimer.cyc, NoImage, NoImage)))

\* lines 348-350 and 363-365
fadeIn(w) == [w EXCEPT !.currentImgEl.opacity = "1"]

FireFadeIn ==
    /\ Due("fadeIn")
    /\ Becomes(Reap(fadeIn(Fired)))

\* time passes, up to the next deadline
MinRem == CHOOSE m \in {timers[i].rem : i \in 1..Len(timers)} :
              \A i \in 1..Len(timers) : m <= timers[i].rem

Tick ==
    /\ timers # <<>>
    /\ MinRem > 0
    /\ timers' = [i \in 1..Len(timers) |-> [timers[i] EXCEPT !.rem = @ - MinRem]]
    /\ UNCHANGED <<pc, window, localStorage, listeners, config, state, errorEl,
                   loadingEl, currentImgEl, backgroundImgEl, cycles, requests>>

Next ==
    \/ PageReady
    \/ ConfigOk
    \/ ConfigError
    \/ ConfigTimeout
    \/ PhotosOk
    \/ PhotosError
    \/ PhotosTimeout
    \/ \E cyc \in Slots : SharpLoad(cyc)
    \/ \E cyc \in Slots : SharpError(cyc)
    \/ \E cyc \in Slots : BlurLoad(cyc)
    \/ \E cyc \in Slots : BlurError(cyc)
    \/ FireHideError
    \/ FireRetry
    \/ FireNext
    \/ FireUpdate
    \/ FireFadeIn
    \/ Tick

Spec == Init /\ [][Next]_vars

\* start-up on every page load, followed until the first display cycle starts
NextStartup ==
    \/ PageReady
    \/ ConfigOk
    \/ ConfigError
    \/ ConfigTimeout
    \/ PhotosOk
    \/ PhotosError
    \/ PhotosTimeout
    \/ FireHideError
    \/ Tick

SpecStartup == InitStartup /\ [][NextStartup]_vars


\* the browser loads the page again: the script starts from its initial state
\* and only localStorage is kept
Reload ==
    /\ pc # "start"
    /\ \E win \in Windows : Becomes(Loaded(win, localStorage))

\* page loads one after another, each followed up to the end of init
NextReload ==
    \/ PageReady
    \/ Reload

SpecReload == InitStartup /\ [][NextReload]_vars


\* lines 379-386: the listener of orientationchange and of resize
handleOrientationChange(w) ==
    setTimeout(w, "reposition", ResizeDelay, 0, NoImage, NoImage)

\* the event is dispatched when the viewport has changed (or, for
\* orientationchange on some browsers, before it has)
OrientationChange ==
    /\ listeners
    /\ window.resizes < MaxResizes
    /\ \E v \in Viewports :
          Becomes(handleOrientationChange(
                     [World EXCEPT !.window.innerWidth = v[1],
                                   !.window.innerHeight = v[2],
                                   !.window.resizes = @ + 1]))

\* the foreground is positioned although it has no loaded source
reposition_Unconditional(w, complete) == PositionCurrent(w, w.currentImgEl.src)

\* lines 380-385: the callback of the 100 ms timer; complete is what
\* currentImgEl.complete reads at that moment
reposition(w, complete) ==
    IF w.currentImgEl.src # NoImage /\ complete
    THEN PositionCurrent(w, w.currentImgEl.src)
    ELSE w

FireReposition ==
    /\ Due("reposition")
    /\ \E complete \in BOOLEAN : Becomes(Reap(reposition(Fired, complete)))

\* /api/config answered 200 with an object without delay, fadeDuration and
\* displayOrder: the defaults of lines 69-71
ConfigEmpty ==
    /\ pc = "loadConfig"
    /\ Becomes(configLoaded(World, [delay |-> 0, fadeDuration |-> 0, displayOrder |-> ""]))

\* the display loop under the default configuration and with every sharp
\* preload succeeding, with the viewport changing at any moment
NextResize ==
    \/ PageReady
    \/ ConfigEmpty
    \/ PhotosOk
    \/ \E cyc \in Slots : SharpLoad(cyc)
    \/ \E cyc \in Slots : BlurLoad(cyc)
    \/ \E cyc \in Slots : BlurError(cyc)
    \/ FireHideError
    \/ FireNext
    \/ FireUpdate
    \/ FireFadeIn
    \/ Tick
    \/ OrientationChange
    \/ FireReposition

SpecResize == Init /\ [][NextResize]_vars

\* showNextPhoto called while a cycle holds the guard isTransitioning: the
\* call lines 263-265 are written for
Reentry ==
    /\ pc = "running"
    /\ state.isTransitioning
    /\ HasFreeSlot(World)
    /\ Becomes(Reap(showNextPhoto(World)))

\* the display loop with such calls at any moment
NextReentry ==
    \/ Next
    \/ Reentry

SpecReentry == Init /\ [][NextReentry]_vars

\* /api/photos answered with a list one longer than the longest of PhotoLists
PhotosOkLong ==
    /\ pc = "loadPhotos"
    /\ Becomes(photosLoaded(World, PhotoList(MaxPhotos + 1)))

\* the display loop when every request and every preload succeeds
NextRotation ==
    \/ PageReady
    \/ ConfigOk
    \/ PhotosOkLong
    \/ \E cyc \in Slots : SharpLoad(cyc)
    \/ \E cyc \in Slots : BlurLoad(cyc)
    \/ FireHideError
    \/ FireNext
    \/ FireUpdate
    \/ FireFadeIn
    \/ Tick

\* the browser answers every request, resolves every preload, lets time pass
\* and runs every timer that is due
FairRotation ==
    /\ WF_vars(PageReady)
    /\ WF_vars(ConfigOk)
    /\ WF_vars(PhotosOkLong)
    /\ \A cyc \in Slots : WF_vars(SharpLoad(cyc)) /\ WF_vars(BlurLoad(cyc))
    /\ WF_vars(FireHideError)
    /\ WF_vars(FireNext)
    /\ WF_vars(FireUpdate)
    /\ WF_vars(FireFadeIn)
    /\ WF_vars(Tick)

SpecRotation == Init /\ [][NextRotation]_vars /\ FairRotation

\* page loads in each viewport the positioning is computed for
PositionWindows ==
    { [ search |-> <<>>, innerWidth |-> v[1], innerHeight |-> v[2],
        hasAddEventListener |-> TRUE, hasElements |-> TRUE, storageMode |-> "ok",
        resizes |-> 0 ] :
      v \in PositionViewports }

InitPosition == InitFrom(PositionWindows, {NoString})

\* lines 354-361: the blur and the sharp image of photo p are put on the page
\* and the sharp image is positioned
Show(p) == Becomes(UpdateImages(World, p, p))

NextPosition == \E p \in 1..Len(ImageSizes) : Show(p)

\* positionImage on every viewport and image size of the bounded input sets
SpecPosition == InitPosition /\ [][NextPosition]_vars


(***************************************************************************)
(* Vocabulary of the properties                                            *)
(***************************************************************************)
Pending(kinds, cyc) ==
    {i \in 1..Len(timers) : timers[i].kind \in kinds /\ timers[i].cyc = cyc}

\* the timers that start the next cycle: the 3000 ms retry and delay + fadeDuration
NextCycleTimers == {i \in 1..Len(timers) : timers[i].kind \in {"retry", "next"}}

\* the timers that change the images of a cycle and fade them in
DisplayTimers(cyc) == Pending({"update", "fadeIn"}, cyc)

\* the sharp preload of cycle cyc has failed
SharpFailed(cyc) ==
    cycles[cyc].live /\ ~cycles[cyc].sharpPending /\ cycles[cyc].sharpImg = NoImage

\* cycle cyc may still call displayPhotoWithBlur or schedule its retry
Undecided(cyc) ==
    cycles[cyc].live /\ (cycles[cyc].sharpPending \/ (~SharpFailed(cyc) /\ cycles[cyc].blurPending))

\* cycles that have started and whose next-cycle timer has not fired
InFlight == Cardinality({c \in Slots : Undecided(c)}) + Cardinality(NextCycleTimers)

\* the step in which the second of the two preload callbacks of cycle cyc runs,
\* the sharp preload has succeeded and the blur preload has failed
BlurFailedJoin(cyc) ==
    \/ BlurError(cyc) /\ ~cycles[cyc].sharpPending /\ cycles[cyc].sharpImg # NoImage
    \/ /\ SharpLoad(cyc)
       /\ ~cycles[cyc].blurPending /\ cycles[cyc].blurImg = NoImage
       /\ cycles[cyc].imagesLoaded = 1

\* a step that starts a display cycle
CycleStarts == \E c \in Slots : ~cycles[c].live /\ cycles'[c].live

(***************************************************************************)
(* Properties                                                              *)
(***************************************************************************)

\* C1: when the blur preload of a cycle fails and its sharp preload succeeds,
\* the sharp image is still displayed (at once, or by the update timer after
\* the fade-out) and the next cycle is scheduled.
C1_BlurFailureIsNotFatal ==
    [][\A c \in Slots :
          BlurFailedJoin(c) =>
             /\ \/ currentImgEl'.src = cycles[c].photo
                \/ \E i \in 1..Len(timers') :
                      /\ timers'[i].kind = "update"
                      /\ timers'[i].cyc = c
                      /\ timers'[i].sharp = cycles[c].photo
             /\ \E i \in 1..Len(timers') :
                   timers'[i].kind = "next" /\ timers'[i].cyc = c]_vars

\* C2: once the display loop runs, the guard isTransitioning is never left set
\* with nothing pending that could start a later cycle: a next-cycle timer, or
\* a preload whose callback can still schedule one.
C2_LoopNeverStuck ==
    (pc = "running" /\ state.isTransitioning) => InFlight > 0

\* C3: when the /api/config request fails, an error is shown and the photo
\* list is still requested, with the default display order, delay and fade.
C3_ConfigFailureProceeds ==
    [][(ConfigError \/ ConfigTimeout) =>
          /\ errorEl'.display = "block"
          /\ pc' = "loadPhotos"
          /\ requests'[Len(requests')] =
                [path |-> "/api/photos", apiKey |-> config.apiKey, order |-> "random"]
          /\ config'.delay = DefaultDelay
          /\ config'.fadeDuration = DefaultFadeDuration]_vars

\* C4: at most one display cycle is in flight: the cycles that may still
\* schedule a next-cycle timer and the pending next-cycle timers (retry or
\* delay + fadeDuration) number at most one together, so a cycle starts only in
\* the step that fires the timer of the cycle before it; and a cycle in flight
\* holds the guard.
C4_OneCycleInFlight ==
    /\ InFlight <= 1
    /\ InFlight = 1 => state.isTransitioning

C4_Witness ==
    \E c, d \in Slots :
        /\ SharpFailed(c) /\ cycles[c].blurPending
        /\ Pending({"retry"}, c) = {}
        /\ cycles[d].sharpPending /\ ~cycles[d].blurPending

\* C5: a failed sharp preload shows the error, displays nothing of that photo
\* and schedules the retry 3000 ms later; the retry starts a cycle with the next
\* index modulo the list length; the blur preload of the failed cycle changes
\* nothing shown or scheduled, whenever it resolves.
C5_SharpFailureRetries ==
    [][/\ \A c \in Slots :
             SharpError(c) =>
                /\ errorEl' = [text |-> [msg |-> "Failed to load photo", photo |-> cycles[c].photo],
                               display |-> "block"]
                /\ currentImgEl' = currentImgEl
                /\ backgroundImgEl' = backgroundImgEl
                /\ state' = state
                /\ timers' = timers \o
                      << [kind |-> "hideError", rem |-> ErrorHideDelay, cyc |-> 0,
                          sharp |-> NoImage, blur |-> NoImage],
                         [kind |-> "retry", rem |-> RetryDelay, cyc |-> c,
                          sharp |-> NoImage, blur |-> NoImage] >>
       /\ \A c \in Slots :
             (SharpFailed(c) /\ (BlurLoad(c) \/ BlurError(c))) =>
                /\ currentImgEl' = currentImgEl
                /\ backgroundImgEl' = backgroundImgEl
                /\ timers' = timers
                /\ state' = state
       /\ FireRetry =>
             /\ state'.isTransitioning
             /\ state'.currentIndex = (state.currentIndex + 1) % Len(state.photos)
             /\ state'.currentPhoto = state.photos[state'.currentIndex + 1]
             /\ \E c \in Slots :
                   /\ ~cycles[c].live
                   /\ cycles'[c] = NewCycle(state'.currentPhoto)]_vars

C5_Witness ==
    \E c \in Slots :
        /\ SharpFailed(c) /\ cycles[c].blurPending
        /\ Pending({"retry"}, c) = {}
        /\ state.currentPhoto # cycles[c].photo
        /\ state.isTransitioning

\* C6: displayPhotoWithBlur is called for a cycle only when both preload
\* callbacks of that cycle have run, and at most once: a cycle with a call, or
\* with a timer that displayPhotoWithBlur registers, has no preload pending, has
\* counted two loads, has exactly one call and at most one next-cycle timer.
C6_PreloadsJoined ==
    \A c \in Slots :
        (cycles[c].displayCalls > 0 \/ Pending({"update", "fadeIn", "next"}, c) # {}) =>
            /\ ~cycles[c].sharpPending
            /\ ~cycles[c].blurPending
            /\ cycles[c].imagesLoaded = 2
            /\ cycles[c].displayCalls = 1
            /\ Cardinality(Pending({"next"}, c)) <= 1

C6_Witness ==
    \E c \in Slots :
        /\ cycles[c].displayCalls = 1
        /\ Pending({"update"}, c) # {}
        /\ Pending({"next"}, c) # {}

\* C7: when the next-cycle timer of a cycle fires, the images of that cycle
\* have been updated and its fade-in has been triggered: none of its update or
\* fade-in timers is still pending.
C7_CycleCompletesBeforeNext ==
    [][FireNext => DisplayTimers(DueTimer.cyc) = {}]_vars

\* the state a page load is in when it has halted without photos
Halted ==
    /\ state.photos = <<>>
    /\ ~state.isTransitioning
    /\ \A c \in Slots : ~cycles[c].live
    /\ \A i \in 1..Len(timers) : timers[i].kind = "hideError"
    /\ currentImgEl.src = NoImage
    /\ backgroundImgEl.src = NoImage

\* C8: a failed photo list request shows an error and halts: no photo is
\* listed, no preload is issued, no cycle and no timer of the loop is started,
\* and no further request is made.
C8_PhotosFailureHalts ==
    [][/\ (PhotosError \/ PhotosTimeout) =>
             /\ errorEl'.display = "block"
             /\ pc' = "photosFailed"
       /\ pc = "photosFailed" =>
             /\ pc' = "photosFailed"
             /\ requests' = requests
       /\ pc' = "photosFailed" => Halted']_vars

C8_Witness ==
    pc = "photosFailed" /\ errorEl.display = "none" /\ timers = <<>>

\* a truthy api_key parameter is in the query string
UrlHasApiKey ==
    \E i \in 1..Len(window.search) :
        /\ window.search[i] = "api_key"
        /\ (i = 1 \/ window.search[i - 1] = "&")
        /\ i + 2 <= Len(window.search)
        /\ window.search[i + 1] = "="
        /\ window.search[i + 2] \notin {"&", "="}

\* a key is stored and localStorage can be read
StorageHasApiKey == window.storageMode = "ok" /\ Truthy(localStorage)

\* C9: init halts without a request, a listener or a cycle exactly when a
\* required element is missing or no API key is available; on every other page
\* load it requests /api/config.
C9_HaltsOnlyOnSetupFailure ==
    [][PageReady =>
          IF ~window.hasElements \/ ~(UrlHasApiKey \/ StorageHasApiKey)
          THEN /\ requests' = <<>>
               /\ ~listeners'
               /\ Halted'
          ELSE /\ pc' = "loadConfig"
               /\ requests' = <<[path |-> "/api/config", apiKey |-> NoString, order |-> ""]>>]_vars

\* C10: the first cycle uses index 0, every later cycle the index after the
\* one before it modulo the list length, no other step changes the index, and
\* while the loop runs the index is within the list and names the current photo.
C10_IndexAdvancesByOne ==
    [][/\ (PhotosOk /\ pc' = "running") => state'.currentIndex = 0
       /\ (FireNext \/ FireRetry) =>
             state'.currentIndex = (state.currentIndex + 1) % Len(state.photos)
       /\ (pc = "running" /\ ~CycleStarts) => state'.currentIndex = state.currentIndex
       /\ pc' = "running" =>
             /\ state'.currentIndex >= 0
             /\ state'.currentIndex < Len(state'.photos)
             /\ state'.currentPhoto = state'.photos[state'.currentIndex + 1]
             /\ CycleStarts <=> (pc = "loadPhotos" \/ FireNext \/ FireRetry)]_vars

C10_Witness ==
    /\ pc = "running"
    /\ Len(state.photos) = 2
    /\ state.currentIndex = 0
    /\ currentImgEl.src = 2
    /\ \E i \in 1..Len(timers) : timers[i].kind = "hideError"

\* C11: when the photo list arrives empty, "No photos found" is put in the
\* loading indicator, which stays visible, and no error banner is shown; from
\* then on the guard isTransitioning is false, no cycle is live (no preload),
\* no timer is registered, no request is made and no image is set.
C11_EmptyListShowsNoPhotos ==
    [][/\ (PhotosOk /\ state'.photos = <<>>) =>
             /\ pc' = "noPhotos"
             /\ loadingEl'.text = "No photos found"
             /\ loadingEl'.display # "none"
       /\ pc' = "noPhotos" =>
             /\ errorEl'.display # "block"
             /\ loadingEl'.text = "No photos found"
             /\ ~state'.isTransitioning
             /\ \A c \in Slots : ~cycles'[c].live
             /\ timers' = <<>>
             /\ currentImgEl'.src = NoImage
             /\ backgroundImgEl'.src = NoImage
       /\ pc = "noPhotos" => (pc' = "noPhotos" /\ requests' = requests)]_vars

C11_Witness ==
    /\ pc = "noPhotos"
    /\ state.photos = <<>>
    /\ loadingEl.text = "No photos found"
    /\ Len(requests) = 2

\* the values the query string gives for api_key: of each part named api_key,
\* what follows its first "=", decoded, when it is not empty
UrlGivenKeys ==
    LET parts == split(window.search, "&")
    IN  { decodeURIComponent(SubSeq(parts[i], 3, Len(parts[i]))) :
            i \in { k \in 1..Len(parts) :
                      /\ Len(parts[k]) >= 3
                      /\ parts[k][1] = "api_key"
                      /\ parts[k][2] = "=" } }

\* C12: on a page load whose URL gives an api_key, getApiKey returns a key the
\* URL gives and, when localStorage works, leaves it stored (over any key
\* stored before); on a page load whose URL gives none and whose localStorage
\* holds a key, it returns the stored key; and localStorage is kept from one
\* page load to the next, so that a key given once is returned by later loads.
C12_ApiKeyPersists ==
    [][/\ (PageReady /\ window.hasElements) =>
             /\ UrlGivenKeys # {} =>
                   /\ config'.apiKey \in UrlGivenKeys
                   /\ window.storageMode = "ok" => localStorage' = config'.apiKey
             /\ (UrlGivenKeys = {} /\ StorageHasApiKey) =>
                   /\ config'.apiKey = localStorage
                   /\ localStorage' = localStorage
       /\ Reload => localStorage' = localStorage]_vars

\* arithmetic on numbers n/d in lowest terms
Minus(a, b) == Frac(a[1] * b[2] - b[1] * a[2], a[2] * b[2])
Half(a) == Frac(a[1], 2 * a[2])
Times(a, b) ==
    LET g == GCD(Abs(a[1]), b[2])
        k == GCD(Abs(b[1]), a[2])
    IN  <<(a[1] \div g) * (b[1] \div k), (a[2] \div k) * (b[2] \div g)>>
AtLeast(a, n) == a[1] >= n * a[2]

\* a sharp image is on the page
Shown == currentImgEl.src # NoImage

\* C13: with a landscape viewport (W >= H) and a portrait image (w < h) the
\* image is H high, w*H/h wide, at top 0 and left (W - width)/2; with a
\* portrait viewport and a landscape image it is W wide, h*W/w high, at left 0
\* and top (H - height)/2; 1024x768 with 600x900 gives 512x768 at left 256,
\* top 0, and 768x1024 with 1600x900 gives 768x432 at top 296, left 0.
C13_CrossOrientation ==
    Shown =>
       LET W == window.innerWidth
           H == window.innerHeight
           w == PhotoSize(currentImgEl.src)[1]
           h == PhotoSize(currentImgEl.src)[2]
           pos == currentImgEl.pos
       IN  /\ (W >= H /\ w < h) =>
                 /\ pos.height = Whole(H)
                 /\ pos.width = Frac(w * H, h)
                 /\ pos.top = Whole(0)
                 /\ pos.left = Half(Minus(Whole(W), pos.width))
           /\ (W < H /\ w >= h) =>
                 /\ pos.width = Whole(W)
                 /\ pos.height = Frac(h * W, w)
                 /\ pos.left = Whole(0)
                 /\ pos.top = Half(Minus(Whole(H), pos.height))
           /\ (<<W, H>> = <<1024, 768>> /\ <<w, h>> = <<600, 900>>) =>
                 pos = [width |-> Whole(512), height |-> Whole(768),
                        top |-> Whole(0), left |-> Whole(256)]
           /\ (<<W, H>> = <<768, 1024>> /\ <<w, h>> = <<1600, 900>>) =>
                 pos = [width |-> Whole(768), height |-> Whole(432),
                        top |-> Whole(296), left |-> Whole(0)]

C13_Witness ==
    /\ Shown
    /\ <<window.innerWidth, window.innerHeight>> = <<768, 1024>>
    /\ PhotoSize(currentImgEl.src) = <<1600, 900>>
    /\ currentImgEl.pos.top = Whole(296)
    /\ currentImgEl.display = "block"

\* C14: when the viewport and the image have the same orientation, an image
\* aspect of at least the viewport aspect fills the height (height H, top 0,
\* left <= 0) and a smaller one fills the width (width W, left 0, top <= 0);
\* either way the image is at least W wide and H high and width/height = w/h.
C14_MatchingOrientation ==
    Shown =>
       LET W == window.innerWidth
           H == window.innerHeight
           w == PhotoSize(currentImgEl.src)[1]
           h == PhotoSize(currentImgEl.src)[2]
           pos == currentImgEl.pos
       IN  ((W >= H) <=> (w >= h)) =>
              /\ IF w * H >= W * h
                 THEN pos.height = Whole(H) /\ pos.top = Whole(0) /\ pos.left[1] <= 0
                 ELSE pos.width = Whole(W) /\ pos.left = Whole(0) /\ pos.top[1] <= 0
              /\ AtLeast(pos.width, W)
              /\ AtLeast(pos.height, H)
              /\ pos.width = Times(pos.height, Frac(w, h))

C14_Witness ==
    /\ Shown
    /\ <<window.innerWidth, window.innerHeight>> = <<1280, 720>>
    /\ PhotoSize(currentImgEl.src) = <<1024, 768>>
    /\ currentImgEl.pos.width = Whole(1280)
    /\ currentImgEl.pos.top[1] < 0

\* the pending 100 ms timers of handleOrientationChange
RepositionTimers == {i \in 1..Len(timers) : timers[i].kind = "reposition"}

\* C15: an orientationchange or resize event only registers a timer of 100 ms;
\* when that timer fires, only the position (and display) of the foreground
\* image may change, to the position of its own image in the viewport of that
\* moment, and not at all while it has no source; the background element, the
\* state (currentIndex, isTransitioning, photos), the closures of the cycles,
\* the other timers, the banners and the requests stay as they are.
C15_ResizeOnlyRepositions ==
    [][/\ OrientationChange =>
             /\ timers' = Append(timers, [kind |-> "reposition", rem |-> ResizeDelay, cyc |-> 0,
                                          sharp |-> NoImage, blur |-> NoImage])
             /\ UNCHANGED <<currentImgEl, backgroundImgEl, state, cycles, errorEl,
                            loadingEl, requests, config, localStorage>>
       /\ FireReposition =>
             /\ timers' = Fired.timers
             /\ \/ currentImgEl' = currentImgEl
                \/ /\ currentImgEl.src # NoImage
                   /\ currentImgEl' =
                         [currentImgEl EXCEPT
                            !.pos = positionImage(window.innerWidth, window.innerHeight,
                                                  PhotoSize(currentImgEl.src)[1],
                                                  PhotoSize(currentImgEl.src)[2]),
                            !.display = "block"]
             /\ UNCHANGED <<backgroundImgEl, state, cycles, errorEl, loadingEl,
                            requests, config, localStorage, window>>]_vars

C15_Witness ==
    /\ window.resizes = 1
    /\ window.innerWidth = 768
    /\ RepositionTimers = {}
    /\ currentImgEl.src = 1
    /\ currentImgEl.pos.height = Whole(432)
    /\ state.isTransitioning
    /\ \E i \in 1..Len(timers) : timers[i].kind = "next"

\* the pending timers of showError, in the order of the calls
HideTimers == {i \in 1..Len(timers) : timers[i].kind = "hideError"}

\* a step in which showError is called: it registers a timer of its own
ShowsError == Cardinality({i \in 1..Len(timers') : timers'[i].kind = "hideError"})
                 > Cardinality(HideTimers)

\* C16: showError leaves the banner visible with a timer of 5000 ms of its
\* own; a visible banner always has the timer of its showError call pending,
\* so it is not left visible longer; and when a timer of showError hides a
\* visible banner, it is the timer of the call that showed it: no later call
\* has a timer with time left.
C16_BannerHiddenByOwnTimer ==
    [][/\ ShowsError =>
             /\ errorEl'.display = "block"
             /\ \E i \in 1..Len(timers') :
                   /\ timers'[i].kind = "hideError"
                   /\ timers'[i].rem = ErrorHideDelay
       /\ errorEl'.display = "block" =>
             \E i \in 1..Len(timers') : timers'[i].kind = "hideError"
       /\ (FireHideError /\ errorEl.display = "block") =>
             \A j \in HideTimers : IsDue(j) \/ timers[j].rem = 0]_vars

\* C17: a call of showNextPhoto while isTransitioning is true changes
\* nothing: the index, the current photo, isFirstLoad, the list, the elements
\* of the page, the closures and preloads, the timers and the requests.
C17_GuardedCallIsNoOp ==
    [][Reentry => UNCHANGED vars]_vars

C17_Witness ==
    /\ ENABLED Reentry
    /\ \E c \in Slots : cycles[c].live /\ ~cycles[c].sharpPending /\ cycles[c].blurPending
    /\ currentImgEl.src # NoImage

\* the step in which the second preload callback of cycle cyc runs after the
\* first, the sharp preload having succeeded
Joins(cyc) ==
    \/ SharpLoad(cyc) /\ ~cycles[cyc].blurPending
    \/ /\ BlurLoad(cyc) \/ BlurError(cyc)
       /\ ~cycles[cyc].sharpPending
       /\ cycles[cyc].sharpImg # NoImage

\* C18: a starting cycle shows the loading indicator if isFirstLoad is true
\* and leaves it as it is otherwise; isFirstLoad changes only from true to
\* false, in the steps in which both preloads of a cycle have completed, and
\* it does change in each of them; and once isFirstLoad is false the
\* foreground image has a source: a photo has been displayed.
C18_FirstLoadIndicator ==
    [][/\ CycleStarts =>
             loadingEl'.display = IF state.isFirstLoad THEN "block" ELSE loadingEl.display
       /\ state'.isFirstLoad # state.isFirstLoad =>
             /\ state.isFirstLoad
             /\ \E c \in Slots : Joins(c)
       /\ (\E c \in Slots : Joins(c)) => ~state'.isFirstLoad
       /\ ~state'.isFirstLoad =>
             /\ loadingEl'.display = "none"
             /\ currentImgEl'.src # NoImage]_vars

\* the photo after photo p in the list, the first one after the last
After(p) ==
    LET i == CHOOSE k \in 1..Len(state.photos) : state.photos[k] = p
    IN  state.photos[(i % Len(state.photos)) + 1]

\* once the loop runs, every photo of the list is on the page, faded in,
\* again and again
RotationLive ==
    \A p \in 1..(MaxPhotos + 1) :
        (pc = "running") ~> (currentImgEl.src = p /\ currentImgEl.opacity = "1")

\* C19: when every request and every preload succeeds, the photos are
\* displayed in list order: the first source the foreground gets is the first
\* photo of the list, and every later source is the photo after the one it
\* replaces, the first photo after the last.
C19_RotationInOrder ==
    [][currentImgEl'.src # currentImgEl.src =>
          currentImgEl'.src = IF currentImgEl.src = NoImage
                              THEN state'.photos[1]
                              ELSE After(currentImgEl.src)]_vars

\* cycle cyc is the latest one and has put its images on the page: it has
\* called displayPhotoWithBlur, its next-cycle timer is pending and its update
\* timer, if it had one, has fired
HasUpdated(cyc) ==
    /\ cycles[cyc].displayCalls = 1
    /\ Pending({"next"}, cyc) # {}
    /\ Pending({"update"}, cyc) = {}

\* C20: once the latest cycle has put its image on the page, the foreground
\* shows that image, the photo at currentIndex, until the next cycle starts:
\* no timer of an earlier cycle puts an older image over it.
C20_ForegroundNeverGoesBack ==
    \A c \in Slots :
        HasUpdated(c) =>
            /\ currentImgEl.src = cycles[c].photo
            /\ cycles[c].photo = state.photos[state.currentIndex + 1]

\* the sum of two numbers n/d in lowest terms
Plus(a, b) == Frac(a[1] * b[2] + b[1] * a[2], a[2] * b[2])
AtMost(a, n) == a[1] <= n * a[2]

PhotoRequests(reqs) == {i \in 1..Len(reqs) : reqs[i].path = "/api/photos"}

====
